---- MODULE Spec2Model ----
(***************************************************************************)
(* A model of the two training pipelines of the repository:                *)
(*   - the job script main.py that src/ml_studio/pytorch_aml.ipynb writes  *)
(*     (lines 308-568), called "job" below;                                *)
(*   - the code cells of the demo notebook (src/unnamed/part_000), called  *)
(*     "demo" below, executed once from top to bottom.                     *)
(* Rows of the input table are the numbers 1..nrows.  Tensors are kept     *)
(* symbolically: a parameter set is the number of optimizer steps that     *)
(* produced it, a prediction or a loss is the record of what it was        *)
(* computed from (rows, parameters, mode).                                 *)
(***************************************************************************)
EXTENDS Integers, Sequences, FiniteSets, TLC

\* ------------------------------------------------------------- bounds
MaxRows == 6
MaxBatch == 2
MaxEpochs == 2
MaxShift == 1
MaxNanAt == 1

\* -------------------------------------------------- program constants
demo_batch_size == 32
num_epochs == 50

\* The split ratios tried, as <<numerator, denominator>>: 0.2 and 0.5.
Ratios == {<<1, 5>>, <<1, 2>>}
\* test_size=0.2 of the demo's split and of the job's second split.
FixedRatio == <<1, 5>>

Delims == {",", ";"}

\* The numbers of feature columns tried: one, and the eleven of the wine data.
FeatureCounts == {1, 11}

\* ------------------------------------------------------------ helpers
Min(a, b) == IF a < b THEN a ELSE b

Range(s) == {s[i] : i \in 1..Len(s)}

\* len(dataloader): the number of batches, the last one possibly smaller.
LoaderLen(n, b) == (n + b - 1) \div b

\* rng.permutation(n) of the seeded generator, drawn from a family of
\* rotations: position i holds index ((i - 1 + shift) mod n) + 1.
Permutation(n, shift) == [i \in 1..n |-> ((i - 1 + shift) % n) + 1]

\* Mutant: the test size is rounded down.
CeilMul_floor(ratio, n) == (ratio[1] * n) \div ratio[2]

\* ceil(test_size * n): sklearn takes the ceiling of the float product, which
\* for the ratios and the sizes used here is the exact ceiling.
CeilMul(ratio, n) == (ratio[1] * n + ratio[2] - 1) \div ratio[2]

\* sklearn's train_test_split(rows, test_size=ratio, random_state=42):
\* n_test = ceil(ratio * n), n_train = n - n_test, ValueError when the
\* training set would be empty; the test rows are the first n_test entries
\* of the permutation, the training rows the next n_train.
TrainTestSplit(rows, ratio, shift) ==
    LET n == Len(rows)
        n_test == CeilMul(ratio, n)
        n_train == n - n_test
        perm == Permutation(n, shift)
    IN  IF n = 0 \/ n_train <= 0
        THEN [ok |-> FALSE, train |-> <<>>, test |-> <<>>]
        ELSE [ok |-> TRUE,
              train |-> [i \in 1..n_train |-> rows[perm[n_test + i]]],
              test |-> [i \in 1..n_test |-> rows[perm[i]]]]

\* pd.read_csv(path, sep=sep): a file written with another delimiter is read
\* as a table of one merged column, which is not named 'quality'.
ReadCsv(f, sep) ==
    IF f.delim = sep
    THEN [loaded |-> TRUE, nrows |-> f.nrows, ncols |-> f.ncols, quality |-> f.quality]
    ELSE [loaded |-> TRUE, nrows |-> f.nrows, ncols |-> 1, quality |-> FALSE]

NoTable == [loaded |-> FALSE, nrows |-> 0, ncols |-> 0, quality |-> FALSE]

\* DataLoader(dataset, batch_size=b, shuffle=s)
DataLoader(rows, b, s) == [rows |-> rows, batch_size |-> b, shuffle |-> s]
NoLoader == DataLoader(<<>>, 0, FALSE)

\* StandardScaler(): nothing fitted.
StandardScaler == [n_fits |-> 0, fit_rows |-> {}]
\* scaler.fit(X): mean_ and scale_ are recomputed from the rows of X alone.
ScalerFit(sc, rows) == [n_fits |-> sc.n_fits + 1, fit_rows |-> Range(rows)]

\* The values of a table: in a flat table every row holds the same values,
\* otherwise every column holds another value in every row.
Feature(flat, row, j) == IF flat THEN j ELSE row + j
Quality(flat, row) == IF flat THEN 5 ELSE row

\* sklearn computes scale_ as the standard deviation of the column, and
\* replaces a standard deviation of zero by 1 (_handle_zeros_in_scale).
ZeroVariance(flat, rows, j) ==
    Cardinality({Feature(flat, rows[i], j) : i \in 1..Len(rows)}) <= 1

\* The mean and the standard deviation of every column of
\* fit_transform(X) = (X - mean_) / scale_: a column of zero variance comes
\* out as zeros.
FitTransformStats(flat, rows, nfeatures) ==
    [j \in 1..nfeatures |->
        [mean |-> 0, std |-> IF ZeroVariance(flat, rows, j) THEN 0 ELSE 1]]
\* Mutant: transform refits the statistics on the rows it is given.
ScalerTransform_refit(sc, rows) == ScalerFit(sc, rows)
\* scaler.transform(X) reads mean_ and scale_ and leaves the scaler as it is.
ScalerTransform(sc, rows) == sc

\* WineQualityNet(input_dim): four linear layers whose first takes input_dim
\* features; a fresh nn.Module is in training mode; no gradient yet.
WineQualityNet(input_dim) ==
    [exists |-> TRUE, input_dim |-> input_dim, fc1_in |-> input_dim,
     params |-> 0, training |-> TRUE, grad |-> <<>>, nan |-> FALSE]
NoModel ==
    [exists |-> FALSE, input_dim |-> 0, fc1_in |-> 0,
     params |-> 0, training |-> TRUE, grad |-> <<>>, nan |-> FALSE]

\* model.train() / model.eval()
ModelTrain(m) == [m EXCEPT !.training = TRUE]
ModelEval(m) == [m EXCEPT !.training = FALSE]

\* Mutant: the layer hands on its input width.
Linear_in_features(in_f, out_f, shape) == <<shape[1], in_f>>

\* nn.Linear(in_f, out_f) on an input of shape (b, in_f) gives shape
\* (b, out_f); an input of another width is an error (no shape).
Linear(in_f, out_f, shape) ==
    IF shape # <<>> /\ shape[2] = in_f THEN <<shape[1], out_f>> ELSE <<>>

\* Mutant: the dropout layers come before the activations.
DemoForwardOps_dropout_first(input_dim) ==
    << <<"linear", input_dim, 64>>, <<"dropout">>, <<"relu">>,
       <<"linear", 64, 32>>, <<"dropout">>, <<"relu">>,
       <<"linear", 32, 16>>, <<"relu">>,
       <<"linear", 16, 1>> >>

\* WineQualityNet.forward of the demo notebook, statement by statement:
\* relu(fc1(x)), dropout, relu(fc2(x)), dropout, relu(fc3(x)), fc4(x).
DemoForwardOps(input_dim) ==
    << <<"linear", input_dim, 64>>, <<"relu">>, <<"dropout">>,
       <<"linear", 64, 32>>, <<"relu">>, <<"dropout">>,
       <<"linear", 32, 16>>, <<"relu">>,
       <<"linear", 16, 1>> >>

\* WineQualityNet.forward of main.py, statement by statement.
MainForwardOps(input_dim) ==
    << <<"linear", input_dim, 64>>, <<"relu">>, <<"dropout">>,
       <<"linear", 64, 32>>, <<"relu">>, <<"dropout">>,
       <<"linear", 32, 16>>, <<"relu">>,
       <<"linear", 16, 1>> >>

\* nn.ReLU and nn.Dropout work elementwise and keep the shape.
ApplyOp(op, shape) ==
    IF op[1] = "linear" THEN Linear(op[2], op[3], shape) ELSE shape

RECURSIVE OutputShape(_, _)
OutputShape(ops, shape) ==
    IF ops = <<>> THEN shape
    ELSE OutputShape(Tail(ops), ApplyOp(Head(ops), shape))

\* model(batch): the output depends on the batch rows, on the parameters and,
\* through the two dropout layers, on the mode.  With parameters that are not
\* finite every output is NaN.  ops are the operations forward applies, in
\* order, and shape is the shape of what it returns for an input of shape
\* (rows of the batch, width).
Forward(m, rows, ops, width) ==
    [rows |-> rows, params |-> m.params, dropout |-> m.training, nan |-> m.nan,
     ops |-> ops, shape |-> OutputShape(ops, <<Cardinality(rows), width>>)]
NoForward ==
    [purpose |-> "none", rows |-> {}, params |-> 0, dropout |-> FALSE,
     ops |-> <<>>, shape |-> <<>>]

\* criterion(outputs, batch_y): the mean squared error of one forward pass,
\* NaN when an output is.
MSELoss(out) ==
    [rows |-> out.rows, params |-> out.params, dropout |-> out.dropout,
     nan |-> out.nan]

\* Mutant: the gradients are not cleared.
ZeroGrad_kept(m) == m

\* optimizer.zero_grad(), loss.backward()
ZeroGrad(m) == [m EXCEPT !.grad = <<>>]
Backward(m, loss) == [m EXCEPT !.grad = Append(@, loss.rows)]

VARIABLES
    nb,             \* "job": main.py; "demo": the demo notebook's cells
    file,           \* the input file: delimiter, rows, columns
    args,           \* main.py's parsed arguments
    nan_at,         \* the number of the optimizer step whose float32 update
                    \* overflows (0: none does)
    rng,            \* rng[k]: the permutation a generator seeded with 42 draws
                    \* for the k-th split of this table, as a rotation
    setup,          \* job notebook: what exists before its first cell runs
    rerun,          \* the partitions of a second run of the preprocessing
    aml,            \* job notebook: the kernel's names, the files written,
                    \* the workspace's environments, the job and its submission
    device_bound,   \* demo: whether the kernel binds the name `device`
    pc, exc, epoch,
    train_loss,     \* demo: the value train_epoch returned in this epoch
    wine_data, X_train, X_test, X_train_final, X_val,
    scaler, scaler_log,
    X_train_scaled, \* per feature column: mean and std of the scaled training data
    train_loader, val_loader, test_loader,
    model, optimizer_steps,
    todo, pos, total_loss, train_losses, val_losses,
    test_predictions, test_targets, metrics,
    run, logged, artifacts,
    last_forward, trained_on, validated_on, tested_on, params_at_train_end

inputVars == <<nb, file, args, nan_at, rng, setup>>
dataVars == <<wine_data, X_train, X_test, X_train_final, X_val, scaler, scaler_log, X_train_scaled>>
loaderVars == <<train_loader, val_loader, test_loader>>
modelVars == <<model, optimizer_steps>>
loopVars == <<todo, pos, total_loss, train_loss, train_losses, val_losses>>
evalVars == <<test_predictions, test_targets, metrics>>
outVars == <<run, logged, artifacts>>
ghostVars == <<last_forward, trained_on, validated_on, tested_on,
              params_at_train_end>>
vars == <<inputVars, device_bound, pc, exc, epoch, dataVars, loaderVars, modelVars, loopVars,
          evalVars, outVars, ghostVars, rerun, aml>>

\* optimizer.step(): the parameters move; nothing looks at the loss or at the
\* gradient first, so a NaN loss or an overflowing update leaves parameters
\* that are not finite, and they stay so.
OptimizerStep(m) ==
    [m EXCEPT !.params = @ + 1, !.nan = @ \/ (m.params + 1 = nan_at)]

\* model(batch_X) in the pipeline that runs: the module's forward, on the
\* feature columns of the batch.
Call(m, rows) ==
    Forward(m, rows,
            IF nb = "job" THEN MainForwardOps(m.fc1_in) ELSE DemoForwardOps(m.fc1_in),
            wine_data.ncols - 1)

NoLoss == [terms |-> <<>>, nbatches |-> 0, epoch |-> 0, phase |-> "none", nan |-> FALSE]
NoMetrics ==
    [computed |-> FALSE, targets |-> <<>>, predictions |-> <<>>, exact |-> FALSE,
     r2 |-> [value |-> "none", flagged |-> FALSE]]
NoArgs == [test_train_ratio |-> FixedRatio, batch_size |-> demo_batch_size,
           epochs |-> num_epochs]

Files ==
    [delim : Delims, nrows : 1..MaxRows, ncols : {k + 1 : k \in FeatureCounts},
     quality : BOOLEAN, flat : BOOLEAN]

\* The job notebook reads no table itself.
NoFile == [delim |-> ",", nrows |-> 1, ncols |-> 2, quality |-> TRUE, flat |-> FALSE]

\* What the job notebook finds when its first cell runs: whether the kernel
\* already binds the name WS_NAME (no cell of the notebook assigns it), and
\* whether the workspace holds version 1 of the data asset
\* wine_quality_kaggle (no cell of the notebook creates it).
Setups == [ws_name_bound : BOOLEAN, data_asset : BOOLEAN]
NoSetup == [ws_name_bound |-> FALSE, data_asset |-> FALSE]

\* The job notebook before its first cell.
NoJob == [configured |-> FALSE]
NoAml == [names |-> {}, files |-> {}, environments |-> {}, job |-> NoJob,
          submitted |-> <<>>]

NoRerun == [done |-> FALSE, train |-> <<>>, val |-> <<>>, test |-> <<>>]

\* Everything but the inputs, before the first statement.
Blank ==
    /\ pc = CASE nb = "job" -> "start"
              [] nb = "demo" -> "cell_load"
              [] nb = "notebook" -> "nb_handle"
    /\ rerun = NoRerun
    /\ aml = NoAml
    /\ exc = "none"
    /\ epoch = 0
    /\ wine_data = NoTable
    /\ X_train = <<>> /\ X_test = <<>> /\ X_train_final = <<>> /\ X_val = <<>>
    /\ scaler = StandardScaler /\ scaler_log = <<>> /\ X_train_scaled = <<>>
    /\ train_loader = NoLoader /\ val_loader = NoLoader /\ test_loader = NoLoader
    /\ model = NoModel /\ optimizer_steps = 0
    /\ todo = <<>> /\ pos = 1 /\ total_loss = <<>>
    /\ train_loss = NoLoss
    /\ train_losses = <<>> /\ val_losses = <<>>
    /\ test_predictions = <<>> /\ test_targets = <<>> /\ metrics = NoMetrics
    /\ run = "none" /\ logged = {} /\ artifacts = <<>>
    /\ last_forward = NoForward /\ trained_on = {} /\ validated_on = {}
    /\ tested_on = {} /\ params_at_train_end = 0

Init ==
    /\ nb \in {"job", "demo", "notebook"}
    /\ CASE nb = "job" ->
              /\ file \in Files
              /\ nan_at \in 0..MaxNanAt
              /\ rng \in [1..2 -> 0..MaxShift]
              /\ args \in [test_train_ratio : Ratios, batch_size : 1..MaxBatch,
                           epochs : 0..MaxEpochs]
              /\ device_bound = FALSE
              /\ setup = NoSetup
         [] nb = "demo" ->
              /\ file \in Files
              /\ nan_at \in 0..MaxNanAt
              /\ rng \in [1..2 -> 0..MaxShift]
              /\ args = NoArgs
              /\ device_bound \in BOOLEAN
              /\ rng[2] = 0
              /\ setup = NoSetup
         [] nb = "notebook" ->
              /\ file = NoFile
              /\ nan_at = 0
              /\ rng = [k \in 1..2 |-> 0]
              /\ args = NoArgs
              /\ device_bound = FALSE
              /\ setup \in Setups
    /\ Blank

\* An uncaught exception ends the run: nothing catches it, nothing retries.
Raise(e) == pc' = "failed" /\ exc' = e

\* ------------------------------------------------------ main.py (job)

\* mlflow.start_run(); mlflow.pytorch.autolog()
main_start ==
    /\ nb = "job" /\ pc = "start"
    /\ run' = "active"
    /\ pc' = "load"
    /\ UNCHANGED <<inputVars, device_bound, exc, epoch, dataVars, loaderVars, modelVars, loopVars,
                   evalVars, logged, artifacts, ghostVars, rerun, aml>>

\* wine_data = pd.read_csv(args.data); the two log_metric calls
main_load ==
    /\ nb = "job" /\ pc = "load"
    /\ wine_data' = ReadCsv(file, ",")
    /\ logged' = logged \cup {"num_samples", "num_features"}
    /\ pc' = "separate"
    /\ UNCHANGED <<inputVars, device_bound, exc, epoch, X_train, X_test, X_train_final, X_val,
                   scaler, scaler_log, X_train_scaled, loaderVars, modelVars, loopVars, evalVars,
                   run, artifacts, ghostVars, rerun, aml>>

\* Mutant: the separation does not notice a missing column.
HasColumnQuality_any(t) == TRUE

\* wine_data.drop('quality', axis=1) and wine_data['quality'] raise KeyError
\* when the table has no column of that name.
HasColumnQuality(t) == t.quality

\* X = wine_data.drop('quality', axis=1).values; y = wine_data['quality'].values
main_separate ==
    /\ nb = "job" /\ pc = "separate"
    /\ IF HasColumnQuality(wine_data)
       THEN pc' = "split" /\ exc' = exc
       ELSE Raise("KeyError")
    /\ UNCHANGED <<inputVars, device_bound, epoch, dataVars, loaderVars, modelVars, loopVars,
                   evalVars, outVars, ghostVars, rerun, aml>>

\* the rows of X, in table order
AllRows(t) == [i \in 1..t.nrows |-> i]

\* Mutant: no seed is given, so every run draws another permutation.
SplitShift_unseeded(k, attempt) == (rng[k] + attempt) % (MaxShift + 1)

\* random_state=42: every call of train_test_split seeds a generator of its
\* own with 42, so the k-th split draws the same permutation in every run
\* (attempt 0 is the run, attempt 1 a second run on the same table).
SplitShift(k, attempt) == rng[k]

\* The job's two train_test_split calls on a table: train/test with the
\* ratio given, then train/validation with 0.2.
MainSplit(t, ratio, attempt) ==
    LET first == TrainTestSplit(AllRows(t), ratio, SplitShift(1, attempt))
        second == TrainTestSplit(first.train, FixedRatio, SplitShift(2, attempt))
    IN  [first |-> first, second |-> second]

\* The demo's one train_test_split call: train/test with 0.2.
DemoSplit(t, attempt) == TrainTestSplit(AllRows(t), FixedRatio, SplitShift(1, attempt))

\* the two train_test_split calls: train/test, then train/validation
main_split ==
    /\ nb = "job" /\ pc = "split"
    /\ LET first == MainSplit(wine_data, args.test_train_ratio, 0).first
            second == MainSplit(wine_data, args.test_train_ratio, 0).second
        IN  IF ~first.ok
            THEN /\ Raise("ValueError")
                 /\ UNCHANGED <<X_train, X_test, X_train_final, X_val>>
            ELSE IF ~second.ok
            THEN /\ Raise("ValueError")
                 /\ X_train' = first.train /\ X_test' = first.test
                 /\ UNCHANGED <<X_train_final, X_val>>
            ELSE /\ pc' = "scale" /\ exc' = exc
                 /\ X_train' = first.train /\ X_test' = first.test
                 /\ X_train_final' = second.train /\ X_val' = second.test
    /\ UNCHANGED <<inputVars, device_bound, epoch, wine_data, scaler, scaler_log, X_train_scaled, loaderVars,
                   modelVars, loopVars, evalVars, outVars, ghostVars, rerun, aml>>

\* The job's standardization: fit_transform on the final training partition,
\* then transform on the validation and the test partition.  fit_transform is
\* fit followed by transform.
MainScale ==
    LET s0 == StandardScaler
        s1 == ScalerTransform(ScalerFit(s0, X_train_final), X_train_final)
        s2 == ScalerTransform(s1, X_val)
        s3 == ScalerTransform(s2, X_test)
    IN  [scaler |-> s3,
         log |-> << <<"fit", "train">>, <<"transform", "train">>,
                    <<"transform", "val">>, <<"transform", "test">> >>]

\* Mutant: the training loader is built over every row of the table.
MainTrainLoader_all == DataLoader([i \in 1..wine_data.nrows |-> i], args.batch_size, TRUE)

\* The job's three loaders: only the training loader shuffles.
MainTrainLoader == DataLoader(X_train_final, args.batch_size, TRUE)
MainValLoader == DataLoader(X_val, args.batch_size, FALSE)
MainTestLoader == DataLoader(X_test, args.batch_size, FALSE)

\* scaler, tensors, datasets and loaders
main_scale ==
    /\ nb = "job" /\ pc = "scale"
    /\ scaler' = MainScale.scaler
    /\ X_train_scaled' = FitTransformStats(file.flat, X_train_final, wine_data.ncols - 1)
    /\ scaler_log' = scaler_log \o MainScale.log
    /\ train_loader' = MainTrainLoader
    /\ val_loader' = MainValLoader
    /\ test_loader' = MainTestLoader
    /\ pc' = "init_model"
    /\ UNCHANGED <<inputVars, device_bound, exc, epoch, wine_data, X_train, X_test, X_train_final,
                   X_val, modelVars, loopVars, evalVars, outVars, ghostVars, rerun, aml>>

\* model = WineQualityNet(X_train_final.shape[1]); criterion; optimizer;
\* train_losses = []; val_losses = []
main_init_model ==
    /\ nb = "job" /\ pc = "init_model"
    /\ model' = WineQualityNet(wine_data.ncols - 1)
    /\ optimizer_steps' = 0
    /\ train_losses' = <<>> /\ val_losses' = <<>>
    /\ epoch' = 0
    /\ pc' = "epoch"
    /\ UNCHANGED <<inputVars, device_bound, exc, dataVars, loaderVars, todo, pos, total_loss, train_loss,
                   evalVars, outVars, ghostVars, rerun, aml>>

\* iter(loader): the order in which one pass yields the rows.  A shuffling
\* loader draws a fresh permutation for every pass, a loader that does not
\* shuffle keeps the dataset order.
LoaderOrder(loader, shift) ==
    IF loader.shuffle
    THEN [i \in 1..Len(loader.rows) |->
              loader.rows[Permutation(Len(loader.rows), shift)[i]]]
    ELSE loader.rows

\* Mutant: a batch holds one row, and the rest of its slice is dropped.
NextBatch_one_row(order, b, p) == SubSeq(order, p, p)

\* The batch that starts at position p of a pass: the next batch_size rows,
\* fewer at the end.
NextBatch(order, b, p) == SubSeq(order, p, Min(p + b - 1, Len(order)))

\* Mutant: the sum of the batch losses is divided by the number of rows.
AvgLoss_per_row(total, loader, ep, phase) ==
    [terms |-> total, nbatches |-> Len(loader.rows), epoch |-> ep, phase |-> phase,
     nan |-> \E i \in 1..Len(total) : total[i].nan]

\* total_loss / len(dataloader): the sum is kept as the sequence of its terms;
\* it is NaN when a term is.
AvgLoss(total, loader, ep, phase) ==
    [terms |-> total,
     nbatches |-> LoaderLen(Len(loader.rows), loader.batch_size),
     epoch |-> ep, phase |-> phase,
     nan |-> \E i \in 1..Len(total) : total[i].nan]

\* One iteration of the job's training batch loop (lines 444-450):
\* zero_grad, forward, loss, backward, step.
MainTrainStep(m, batch) ==
    LET m0 == ZeroGrad(m)
        outputs == Call(m0, batch)
        loss == MSELoss(outputs)
        m1 == Backward(m0, loss)
    IN  [model |-> OptimizerStep(m1), loss |-> loss, outputs |-> outputs,
         used_grad |-> m1.grad]

\* Mutant: the training phase does not switch the mode back.
MainTrainPhaseMode_kept(m) == m

\* The mode set at the head of the job's training phase and of its
\* validation phase (lines 442 and 456).
MainTrainPhaseMode(m) == ModelTrain(m)
MainValPhaseMode(m) == ModelEval(m)

\* for epoch in range(args.epochs): model.train(); total_train_loss = 0
main_epoch ==
    /\ nb = "job" /\ pc = "epoch"
    /\ IF epoch < args.epochs
       THEN /\ model' = MainTrainPhaseMode(model)
            /\ total_loss' = <<>>
            /\ \E shift \in 0..MaxShift : todo' = LoaderOrder(train_loader, shift)
            /\ pos' = 1
            /\ pc' = "train_batch"
       ELSE /\ pc' = "plot"
            /\ UNCHANGED <<model, total_loss, todo, pos>>
    /\ UNCHANGED <<inputVars, device_bound, exc, epoch, dataVars, loaderVars, optimizer_steps,
                   train_loss, train_losses, val_losses, evalVars, outVars, ghostVars, rerun, aml>>

main_train_batch ==
    /\ nb = "job" /\ pc = "train_batch" /\ pos <= Len(todo)
    /\ LET batch == Range(NextBatch(todo, train_loader.batch_size, pos))
           r == MainTrainStep(model, batch)
       IN   /\ model' = r.model
            /\ optimizer_steps' = optimizer_steps + 1
            /\ total_loss' = Append(total_loss, r.loss)
            /\ pos' = pos + train_loader.batch_size
            /\ last_forward' = [purpose |-> "update", rows |-> batch,
                                params |-> r.outputs.params,
                                dropout |-> r.outputs.dropout,
                                ops |-> r.outputs.ops, shape |-> r.outputs.shape]
            /\ trained_on' = trained_on \cup batch
    /\ UNCHANGED <<inputVars, device_bound, pc, exc, epoch, dataVars, loaderVars, todo,
                   train_loss, train_losses, val_losses, evalVars, outVars,
                   validated_on, tested_on, params_at_train_end, rerun, aml>>

\* avg_train_loss; train_losses.append; model.eval(); total_val_loss = 0
main_train_end ==
    /\ nb = "job" /\ pc = "train_batch" /\ pos > Len(todo)
    /\ train_losses' = Append(train_losses, AvgLoss(total_loss, train_loader, epoch, "train"))
    /\ model' = MainValPhaseMode(model)
    /\ total_loss' = <<>>
    /\ todo' = LoaderOrder(val_loader, 0)
    /\ pos' = 1
    /\ params_at_train_end' = model.params
    /\ pc' = "val_batch"
    /\ UNCHANGED <<inputVars, device_bound, exc, epoch, dataVars, loaderVars, optimizer_steps,
                   train_loss, val_losses, evalVars, outVars, last_forward, trained_on,
                   validated_on, tested_on, rerun, aml>>

\* Mutant: the validation iteration also steps the optimizer.
ValStep_steps(m, batch) ==
    [model |-> OptimizerStep(m), loss |-> MSELoss(Call(m, batch)),
     outputs |-> Call(m, batch)]

\* One iteration of a validation batch loop under torch.no_grad(): forward
\* and loss only.
ValStep(m, batch) ==
    LET outputs == Call(m, batch)
    IN  [model |-> m, loss |-> MSELoss(outputs), outputs |-> outputs]

main_val_batch ==
    /\ nb = "job" /\ pc = "val_batch" /\ pos <= Len(todo)
    /\ LET batch == Range(NextBatch(todo, val_loader.batch_size, pos))
           r == ValStep(model, batch)
       IN  /\ model' = r.model
           /\ total_loss' = Append(total_loss, r.loss)
           /\ last_forward' = [purpose |-> "val", rows |-> batch,
                               params |-> r.outputs.params,
                               dropout |-> r.outputs.dropout,
                               ops |-> r.outputs.ops, shape |-> r.outputs.shape]
           /\ validated_on' = validated_on \cup batch
    /\ pos' = pos + val_loader.batch_size
    /\ UNCHANGED <<inputVars, device_bound, pc, exc, epoch, dataVars, loaderVars, optimizer_steps,
                   todo, train_loss, train_losses, val_losses, evalVars, outVars, trained_on,
                   tested_on, params_at_train_end, rerun, aml>>

\* avg_val_loss; val_losses.append; next epoch
main_val_end ==
    /\ nb = "job" /\ pc = "val_batch" /\ pos > Len(todo)
    /\ val_losses' = Append(val_losses, AvgLoss(total_loss, val_loader, epoch, "val"))
    /\ epoch' = epoch + 1
    /\ pc' = "epoch"
    /\ UNCHANGED <<inputVars, device_bound, exc, dataVars, loaderVars, modelVars, todo, pos,
                   total_loss, train_loss, train_losses, evalVars, outVars, ghostVars, rerun, aml>>

\* tensor.squeeze() of a model output of shape (k, 1): shape (k,) for k > 1
\* and a 0-d tensor, with no batch dimension, for k = 1.
SqueezedDims(k) == IF k = 1 THEN 0 ELSE 1

\* The per-row predictions of one forward pass, in batch order.
Predictions(m, batch) ==
    [i \in 1..Len(batch) |-> [row |-> batch[i], params |-> m.params,
                              dropout |-> m.training, nan |-> m.nan]]

\* sklearn's r2_score(y_true, y_pred) = 1 - SS_res / SS_tot, with the two
\* cases of SS_tot = 0 (targets of zero variance) replaced by finite scores:
\* 1.0 when SS_res = 0 as well, 0.0 otherwise.  Fewer than two samples give
\* nan and a warning.  exact says whether every prediction equals its target.
R2Score(flat, targets, exact) ==
    LET ss_tot_zero ==
            Cardinality({Quality(flat, targets[i]) : i \in 1..Len(targets)}) <= 1
    IN  IF Len(targets) < 2 THEN [value |-> "nan", flagged |-> TRUE]
        ELSE IF exact THEN [value |-> "1.0", flagged |-> FALSE]
        ELSE IF ss_tot_zero THEN [value |-> "0.0", flagged |-> FALSE]
        ELSE [value |-> "1 - SS_res/SS_tot", flagged |-> FALSE]

\* sklearn's metrics validate their arguments first (check_array): an array
\* holding NaN or infinity is rejected with ValueError.
AllFinite(predictions) == \A i \in 1..Len(predictions) : ~predictions[i].nan

\* plt.plot(train_losses) ...; plt.savefig('training_history.png')
main_plot ==
    /\ nb = "job" /\ pc = "plot"
    /\ pc' = "test_eval"
    /\ UNCHANGED <<inputVars, device_bound, exc, epoch, dataVars, loaderVars, modelVars, loopVars,
                   evalVars, outVars, ghostVars, rerun, aml>>

\* model.eval(); test_predictions = []; test_targets = []
main_test_eval ==
    /\ nb = "job" /\ pc = "test_eval"
    /\ model' = ModelEval(model)
    /\ test_predictions' = <<>> /\ test_targets' = <<>>
    /\ todo' = LoaderOrder(test_loader, 0)
    /\ pos' = 1
    /\ pc' = "test_batch"
    /\ UNCHANGED <<inputVars, device_bound, exc, epoch, dataVars, loaderVars, optimizer_steps,
                   total_loss, train_loss, train_losses, val_losses, metrics, outVars, ghostVars, rerun, aml>>

\* outputs = model(batch_X).squeeze(); test_predictions.extend(outputs.numpy());
\* test_targets.extend(batch_y.numpy()).  list.extend of a 0-d array raises
\* TypeError (iteration over a 0-d array).
main_test_batch ==
    /\ nb = "job" /\ pc = "test_batch" /\ pos <= Len(todo)
    /\ LET batch == NextBatch(todo, test_loader.batch_size, pos)
       IN  /\ last_forward' = [purpose |-> "test", rows |-> Range(batch),
                               params |-> model.params, dropout |-> model.training,
                               ops |-> Call(model, Range(batch)).ops,
                               shape |-> Call(model, Range(batch)).shape]
           /\ tested_on' = tested_on \cup Range(batch)
           /\ IF SqueezedDims(Len(batch)) = 0
              THEN /\ Raise("TypeError")
                   /\ UNCHANGED <<test_predictions, test_targets, pos>>
              ELSE /\ test_predictions' = test_predictions \o Predictions(model, batch)
                   /\ test_targets' = test_targets \o batch
                   /\ pos' = pos + test_loader.batch_size
                   /\ UNCHANGED <<pc, exc>>
    /\ UNCHANGED <<inputVars, device_bound, epoch, dataVars, loaderVars, modelVars, todo, total_loss,
                   train_loss, train_losses, val_losses, metrics, outVars, trained_on,
                   validated_on, params_at_train_end, rerun, aml>>

\* mean_squared_error, r2_score, np.sqrt over the collected arrays; the
\* scatter plot and the error histogram
main_metrics ==
    /\ nb = "job" /\ pc = "test_batch" /\ pos > Len(todo)
    /\ IF AllFinite(test_predictions)
       THEN /\ \E exact \in BOOLEAN :
                 metrics' = [computed |-> TRUE, targets |-> test_targets,
                             predictions |-> test_predictions, exact |-> exact,
                             r2 |-> R2Score(file.flat, test_targets, exact)]
            /\ pc' = "log" /\ exc' = exc
       ELSE /\ Raise("ValueError")
            /\ metrics' = metrics
    /\ UNCHANGED <<inputVars, device_bound, epoch, dataVars, loaderVars, modelVars, loopVars,
                   test_predictions, test_targets, outVars, ghostVars, rerun, aml>>

LoggedAtEnd_none == {}

LoggedAtEnd ==
    {"test_mse", "test_rmse", "test_r2", "learning_rate", "batch_size", "epochs",
     "training_history.png", "predictions_scatter.png", "error_distribution.png"}

\* the log_metric, log_param and log_artifact calls
main_log ==
    /\ nb = "job" /\ pc = "log"
    /\ logged' = logged \cup LoggedAtEnd
    /\ pc' = "register"
    /\ UNCHANGED <<inputVars, device_bound, exc, epoch, dataVars, loaderVars, modelVars, loopVars,
                   evalVars, run, artifacts, ghostVars, rerun, aml>>

\* What a written model artifact holds.  contents names the parts present;
\* a part that is absent keeps its empty value.
Artifact(path, contents, m, opt, sc, dim, tl, vl) ==
    [path |-> path, contents |-> contents,
     state_dict |-> [params |-> m.params, fc1_in |-> m.fc1_in, nan |-> m.nan],
     optimizer_state |-> opt, scaler |-> sc, input_dim |-> dim,
     train_losses |-> tl, val_losses |-> vl]

\* mlflow.pytorch.log_model(pytorch_model=model, ...) and
\* mlflow.pytorch.save_model(pytorch_model=model, ...): each writes the model
\* and nothing else.
MlflowModel(path, m) ==
    Artifact(path, {"model_state_dict"}, m, 0, StandardScaler, 0, <<>>, <<>>)

main_register ==
    /\ nb = "job" /\ pc = "register"
    /\ artifacts' = artifacts \o << MlflowModel("registered_model", model),
                                    MlflowModel("trained_model", model) >>
    /\ pc' = "end_run"
    /\ UNCHANGED <<inputVars, device_bound, exc, epoch, dataVars, loaderVars, modelVars, loopVars,
                   evalVars, run, logged, ghostVars, rerun, aml>>

\* mlflow.end_run()
main_end_run ==
    /\ nb = "job" /\ pc = "end_run"
    /\ run' = "ended"
    /\ pc' = "done"
    /\ UNCHANGED <<inputVars, device_bound, exc, epoch, dataVars, loaderVars, modelVars, loopVars,
                   evalVars, logged, artifacts, ghostVars, rerun, aml>>

MainNext ==
    \/ main_start \/ main_load \/ main_separate \/ main_split \/ main_scale
    \/ main_init_model \/ main_epoch \/ main_train_batch \/ main_train_end
    \/ main_val_batch \/ main_val_end \/ main_plot \/ main_test_eval
    \/ main_test_batch \/ main_metrics \/ main_log \/ main_register
    \/ main_end_run

\* ------------------------------------------- the demo notebook's cells

\* wine_data = pd.read_csv(url, sep=';'); wine_data['quality'].value_counts()
cell_load ==
    /\ nb = "demo" /\ pc = "cell_load"
    /\ wine_data' = ReadCsv(file, ";")
    /\ IF HasColumnQuality(ReadCsv(file, ";"))
       THEN pc' = "cell_preprocess" /\ exc' = exc
       ELSE Raise("KeyError")
    /\ UNCHANGED <<inputVars, device_bound, epoch, X_train, X_test, X_train_final,
                   X_val, scaler, scaler_log, X_train_scaled, loaderVars, modelVars, loopVars,
                   evalVars, outVars, ghostVars, rerun, aml>>

\* The demo's standardization: fit_transform on the training partition, then
\* transform on the test partition.
DemoScale(train, test) ==
    LET s0 == StandardScaler
        s1 == ScalerTransform(ScalerFit(s0, train), train)
        s2 == ScalerTransform(s1, test)
    IN  [scaler |-> s2,
         log |-> << <<"fit", "train">>, <<"transform", "train">>,
                    <<"transform", "test">> >>]

\* The demo's two loaders, batch_size = 32; only the training loader shuffles.
DemoTrainLoader(train) == DataLoader(train, demo_batch_size, TRUE)
DemoTestLoader(test) == DataLoader(test, demo_batch_size, FALSE)

\* the preprocessing cell: separation, one train_test_split, scaler, loaders
cell_preprocess ==
    /\ nb = "demo" /\ pc = "cell_preprocess"
    /\ LET split == DemoSplit(wine_data, 0)
        IN  IF ~HasColumnQuality(wine_data)
            THEN /\ Raise("KeyError")
                 /\ UNCHANGED <<X_train, X_test, scaler, scaler_log, X_train_scaled, loaderVars>>
            ELSE IF ~split.ok
            THEN /\ Raise("ValueError")
                 /\ UNCHANGED <<X_train, X_test, scaler, scaler_log, X_train_scaled, loaderVars>>
            ELSE /\ X_train' = split.train /\ X_test' = split.test
                 /\ scaler' = DemoScale(split.train, split.test).scaler
                 /\ X_train_scaled' =
                      FitTransformStats(file.flat, split.train, wine_data.ncols - 1)
                 /\ scaler_log' = scaler_log \o DemoScale(split.train, split.test).log
                 /\ train_loader' = DemoTrainLoader(split.train)
                 /\ test_loader' = DemoTestLoader(split.test)
                 /\ val_loader' = val_loader
                 /\ pc' = "cell_model" /\ exc' = exc
    /\ UNCHANGED <<inputVars, device_bound, epoch, wine_data, X_train_final, X_val,
                   modelVars, loopVars, evalVars, outVars, ghostVars, rerun, aml>>

\* input_dim = X_train.shape[1]; model = WineQualityNet(input_dim).to(device):
\* reading the unbound name `device` raises NameError.
cell_model ==
    /\ nb = "demo" /\ pc = "cell_model"
    /\ IF device_bound
       THEN /\ model' = WineQualityNet(wine_data.ncols - 1)
            /\ pc' = "cell_setup" /\ exc' = exc
       ELSE /\ Raise("NameError")
            /\ model' = model
    /\ UNCHANGED <<inputVars, device_bound, epoch, dataVars, loaderVars,
                   optimizer_steps, loopVars, evalVars, outVars, ghostVars, rerun, aml>>

\* criterion, optimizer, num_epochs = 50, train_losses = [], val_losses = [],
\* def train_epoch, def validate
cell_setup ==
    /\ nb = "demo" /\ pc = "cell_setup"
    /\ optimizer_steps' = 0
    /\ train_losses' = <<>> /\ val_losses' = <<>>
    /\ epoch' = 0
    /\ pc' = "cell_train"
    /\ UNCHANGED <<inputVars, device_bound, exc, dataVars, loaderVars, model, todo,
                   pos, total_loss, train_loss, evalVars, outVars, ghostVars, rerun, aml>>

\* One iteration of train_epoch's batch loop (lines 303-315): forward, loss,
\* zero_grad, backward, step.
DemoTrainStep(m, batch) ==
    LET outputs == Call(m, batch)
        loss == MSELoss(outputs)
        m0 == ZeroGrad(m)
        m1 == Backward(m0, loss)
    IN  [model |-> OptimizerStep(m1), loss |-> loss, outputs |-> outputs,
         used_grad |-> m1.grad]

\* The mode train_epoch and validate set on entry (lines 300 and 321).
TrainEpochMode(m) == ModelTrain(m)
ValidateMode(m) == ModelEval(m)

\* The loaders the training-loop cell passes to train_epoch and to validate
\* (lines 354 and 355).
TrainEpochLoader == train_loader
ValidateLoader == test_loader

\* for epoch in range(num_epochs): the call of train_epoch, up to its loop
cell_train ==
    /\ nb = "demo" /\ pc = "cell_train"
    /\ IF epoch < num_epochs
       THEN /\ model' = TrainEpochMode(model)
            /\ total_loss' = <<>>
            /\ \E shift \in 0..MaxShift : todo' = LoaderOrder(TrainEpochLoader, shift)
            /\ pos' = 1
            /\ pc' = "train_epoch"
       ELSE /\ pc' = "cell_plot"
            /\ UNCHANGED <<model, total_loss, todo, pos>>
    /\ UNCHANGED <<inputVars, device_bound, exc, epoch, dataVars, loaderVars,
                   optimizer_steps, train_loss, train_losses, val_losses,
                   evalVars, outVars, ghostVars, rerun, aml>>

train_epoch_batch ==
    /\ nb = "demo" /\ pc = "train_epoch" /\ pos <= Len(todo)
    /\ LET batch == Range(NextBatch(todo, TrainEpochLoader.batch_size, pos))
           r == DemoTrainStep(model, batch)
       IN   /\ model' = r.model
            /\ optimizer_steps' = optimizer_steps + 1
            /\ total_loss' = Append(total_loss, r.loss)
            /\ pos' = pos + TrainEpochLoader.batch_size
            /\ last_forward' = [purpose |-> "update", rows |-> batch,
                                params |-> r.outputs.params,
                                dropout |-> r.outputs.dropout,
                                ops |-> r.outputs.ops, shape |-> r.outputs.shape]
            /\ trained_on' = trained_on \cup batch
    /\ UNCHANGED <<inputVars, device_bound, pc, exc, epoch, dataVars, loaderVars, todo,
                   train_loss, train_losses, val_losses, evalVars, outVars,
                   validated_on, tested_on, params_at_train_end, rerun, aml>>

\* return total_loss / len(dataloader); then the call of validate, up to its loop
train_epoch_return ==
    /\ nb = "demo" /\ pc = "train_epoch" /\ pos > Len(todo)
    /\ train_loss' = AvgLoss(total_loss, TrainEpochLoader, epoch, "train")
    /\ model' = ValidateMode(model)
    /\ total_loss' = <<>>
    /\ todo' = LoaderOrder(ValidateLoader, 0)
    /\ pos' = 1
    /\ params_at_train_end' = model.params
    /\ pc' = "validate"
    /\ UNCHANGED <<inputVars, device_bound, exc, epoch, dataVars, loaderVars,
                   optimizer_steps, train_losses, val_losses, evalVars,
                   outVars, last_forward, trained_on, validated_on, tested_on, rerun, aml>>

validate_batch ==
    /\ nb = "demo" /\ pc = "validate" /\ pos <= Len(todo)
    /\ LET batch == Range(NextBatch(todo, ValidateLoader.batch_size, pos))
           r == ValStep(model, batch)
       IN  /\ model' = r.model
           /\ total_loss' = Append(total_loss, r.loss)
           /\ last_forward' = [purpose |-> "val", rows |-> batch,
                               params |-> r.outputs.params,
                               dropout |-> r.outputs.dropout,
                               ops |-> r.outputs.ops, shape |-> r.outputs.shape]
           /\ validated_on' = validated_on \cup batch
    /\ pos' = pos + ValidateLoader.batch_size
    /\ UNCHANGED <<inputVars, device_bound, pc, exc, epoch, dataVars, loaderVars,
                   optimizer_steps, todo, train_loss, train_losses, val_losses,
                   evalVars, outVars, trained_on, tested_on, params_at_train_end, rerun, aml>>

\* validate returns; train_losses.append(train_loss); val_losses.append(val_loss)
validate_return ==
    /\ nb = "demo" /\ pc = "validate" /\ pos > Len(todo)
    /\ train_losses' = Append(train_losses, train_loss)
    /\ val_losses' = Append(val_losses, AvgLoss(total_loss, ValidateLoader, epoch, "val"))
    /\ epoch' = epoch + 1
    /\ pc' = "cell_train"
    /\ UNCHANGED <<inputVars, device_bound, exc, dataVars, loaderVars, modelVars, todo,
                   pos, total_loss, train_loss, evalVars, outVars, ghostVars, rerun, aml>>

\* the plot of the two histories
cell_plot ==
    /\ nb = "demo" /\ pc = "cell_plot"
    /\ pc' = "cell_eval"
    /\ UNCHANGED <<inputVars, device_bound, exc, epoch, dataVars, loaderVars, modelVars,
                   loopVars, evalVars, outVars, ghostVars, rerun, aml>>

\* model.eval(); predictions = model(X_test_tensor).squeeze(); the metrics of
\* sklearn over (y_test, predictions).  sklearn rejects a 0-d array of
\* predictions with TypeError (a singleton array is not a valid collection).
cell_eval ==
    /\ nb = "demo" /\ pc = "cell_eval"
    /\ model' = ModelEval(model)
    /\ last_forward' = [purpose |-> "test", rows |-> Range(X_test),
                        params |-> model.params, dropout |-> ModelEval(model).training,
                        ops |-> Call(model, Range(X_test)).ops,
                        shape |-> Call(model, Range(X_test)).shape]
    /\ tested_on' = tested_on \cup Range(X_test)
    /\ test_predictions' = Predictions(ModelEval(model), X_test)
    /\ test_targets' = X_test
    /\ IF SqueezedDims(Len(X_test)) = 0
       THEN /\ Raise("TypeError")
            /\ metrics' = metrics
       ELSE IF ~AllFinite(Predictions(ModelEval(model), X_test))
       THEN /\ Raise("ValueError")
            /\ metrics' = metrics
       ELSE /\ \E exact \in BOOLEAN :
                 metrics' = [computed |-> TRUE, targets |-> X_test,
                             predictions |-> Predictions(ModelEval(model), X_test),
                             exact |-> exact,
                             r2 |-> R2Score(file.flat, X_test, exact)]
            /\ pc' = "cell_save" /\ exc' = exc
    /\ UNCHANGED <<inputVars, device_bound, epoch, dataVars, loaderVars,
                   optimizer_steps, loopVars, outVars, trained_on, validated_on,
                   params_at_train_end, rerun, aml>>

model_path == "wine_quality_model.pth"

\* torch.save({...six keys...}, model_path)
SaveCheckpoint ==
    Artifact(model_path,
             {"model_state_dict", "optimizer_state_dict", "scaler", "input_dim",
              "train_losses", "val_losses"},
             model, optimizer_steps, scaler, wine_data.ncols - 1,
             train_losses, val_losses)

cell_save ==
    /\ nb = "demo" /\ pc = "cell_save"
    /\ artifacts' = Append(artifacts, SaveCheckpoint)
    /\ pc' = "cell_load_model"
    /\ UNCHANGED <<inputVars, device_bound, exc, epoch, dataVars, loaderVars, modelVars,
                   loopVars, evalVars, run, logged, ghostVars, rerun, aml>>

\* The keyword arguments torch.load takes itself, and those it hands on to
\* the unpickler, which takes no others.
TorchLoadAccepts ==
    {"map_location", "pickle_module", "weights_only", "mmap",
     "fix_imports", "encoding", "errors", "buffers"}

\* The load cell's call: torch.load('./wine_quality_model.pth', weighta_only=False)
LoadCallPath == "./wine_quality_model.pth"
LoadCallKwargs == {"weighta_only"}

\* './name' and 'name' are the same file of the working directory.
NormPath(p) == IF p = "./wine_quality_model.pth" THEN "wine_quality_model.pth" ELSE p

FilesAt(p) == {i \in 1..Len(artifacts) : artifacts[i].path = NormPath(p)}

\* model.load_state_dict(sd) raises RuntimeError on a size mismatch.
StateDictFits(m, sd) == m.fc1_in = sd.fc1_in
LoadStateDict(m, sd) == [m EXCEPT !.params = sd.params, !.nan = sd.nan]

\* the load cell: torch.load, WineQualityNet(input_dim), load_state_dict,
\* model.eval(), device = ..., model.to(device)
cell_load_model ==
    /\ nb = "demo" /\ pc = "cell_load_model"
    /\ IF ~(LoadCallKwargs \subseteq TorchLoadAccepts)
       THEN /\ Raise("TypeError")
            /\ UNCHANGED <<model, device_bound>>
       ELSE IF FilesAt(LoadCallPath) = {}
       THEN /\ Raise("FileNotFoundError")
            /\ UNCHANGED <<model, device_bound>>
       ELSE LET checkpoint == artifacts[CHOOSE i \in FilesAt(LoadCallPath) :
                                            \A j \in FilesAt(LoadCallPath) : j <= i]
                fresh == WineQualityNet(checkpoint.input_dim)
            IN  IF ~StateDictFits(fresh, checkpoint.state_dict)
                THEN /\ Raise("RuntimeError")
                     /\ model' = fresh
                     /\ device_bound' = device_bound
                ELSE /\ model' = ModelEval(LoadStateDict(fresh, checkpoint.state_dict))
                     /\ device_bound' = TRUE
                     /\ pc' = "done" /\ exc' = exc
    /\ UNCHANGED <<inputVars, epoch, dataVars, loaderVars, optimizer_steps, loopVars,
                   evalVars, outVars, ghostVars, rerun, aml>>

DemoNext ==
    \/ cell_load \/ cell_preprocess \/ cell_model \/ cell_setup \/ cell_train
    \/ train_epoch_batch \/ train_epoch_return \/ validate_batch \/ validate_return
    \/ cell_plot \/ cell_eval \/ cell_save \/ cell_load_model

\* ------------------------------------------- the job notebook's cells

\* Everything the job notebook's cells leave alone.
pipelineVars == <<inputVars, device_bound, epoch, dataVars, loaderVars, modelVars, loopVars,
                  evalVars, outVars, ghostVars, rerun>>

\* The names a cell can read: those earlier cells assigned or imported, and
\* those the kernel bound before the first cell.
Bound(names) ==
    names \subseteq (aml.names \cup IF setup.ws_name_bound THEN {"WS_NAME"} ELSE {})

\* os.path.join(directory, name), and the target of %%writefile
\* {directory}/name: the file `name` of `directory`.
PathJoin(directory, name) == <<directory, name>>

\* A directory is the same one with and without a trailing slash.
NormDir(directory) == IF directory = "./src/" THEN "./src" ELSE directory

dependencies_dir == "./dependencies"
custom_env_name_conda == "pytorch-env"
custom_env_name == "aml-pytorch"
train_src_dir == "./src"
registered_model_name == "wine_quality_model"

\* The inputs dictionary of the job: each value with its Python type
\* (0.2 and 0.001 as fractions).
JobInputs ==
    [data |-> [kind |-> "uri_file", v |-> "wine_quality_kaggle:1"],
     test_train_ratio |-> [kind |-> "float", v |-> <<1, 5>>],
     learning_rate |-> [kind |-> "float", v |-> <<1, 1000>>],
     batch_size |-> [kind |-> "int", v |-> 32],
     epochs |-> [kind |-> "int", v |-> 100],
     registered_model_name |-> [kind |-> "str", v |-> registered_model_name]]

JobCommand_test_size ==
    << [flag |-> "--data", input |-> "data"],
       [flag |-> "--test_size", input |-> "test_train_ratio"],
       [flag |-> "--learning_rate", input |-> "learning_rate"],
       [flag |-> "--batch_size", input |-> "batch_size"],
       [flag |-> "--epochs", input |-> "epochs"],
       [flag |-> "--registered_model_name", input |-> "registered_model_name"] >>

\* The command string after "python main.py": each --flag with the name X
\* of the ${{inputs.X}} placeholder that follows it.
JobCommand ==
    << [flag |-> "--data", input |-> "data"],
       [flag |-> "--test_train_ratio", input |-> "test_train_ratio"],
       [flag |-> "--learning_rate", input |-> "learning_rate"],
       [flag |-> "--batch_size", input |-> "batch_size"],
       [flag |-> "--epochs", input |-> "epochs"],
       [flag |-> "--registered_model_name", input |-> "registered_model_name"] >>

\* environment="aml-pytorch@latest": a name and a label.
JobEnvironment == [name |-> "aml-pytorch", label |-> "latest"]

\* code="./src/"
JobCode == "./src/"

\* The arguments main.py's parser declares.
NoDefault == [kind |-> "none", v |-> "None"]
ParserArguments ==
    << [flag |-> "--data", dest |-> "data", type |-> "str", default |-> NoDefault],
       [flag |-> "--test_train_ratio", dest |-> "test_train_ratio", type |-> "float",
        default |-> [kind |-> "float", v |-> <<1, 5>>]],
       [flag |-> "--learning_rate", dest |-> "learning_rate", type |-> "float",
        default |-> [kind |-> "float", v |-> <<1, 1000>>]],
       [flag |-> "--batch_size", dest |-> "batch_size", type |-> "int",
        default |-> [kind |-> "int", v |-> 32]],
       [flag |-> "--epochs", dest |-> "epochs", type |-> "int",
        default |-> [kind |-> "int", v |-> 100]],
       [flag |-> "--registered_model_name", dest |-> "registered_model_name",
        type |-> "str", default |-> NoDefault] >>

\* The text the service puts in place of ${{inputs.X}}: the literal of a
\* number or a string, the path of the file for a uri_file input.
Render(value) ==
    [of |-> IF value.kind = "uri_file" THEN "str" ELSE value.kind, v |-> value.v]

\* The command line the job runs: every placeholder replaced by its input's
\* text; a placeholder that names no input cannot be resolved.
ResolveCommand(cmd, inputs) ==
    IF \E i \in 1..Len(cmd) : cmd[i].input \notin DOMAIN inputs
    THEN [ok |-> FALSE, argv |-> <<>>]
    ELSE [ok |-> TRUE,
          argv |-> [i \in 1..Len(cmd) |->
                      [flag |-> cmd[i].flag, text |-> Render(inputs[cmd[i].input])]]]

\* argparse's type=: str keeps the text, int takes the literal of an integer,
\* float the literal of an integer or a float.
Converts(type, text) ==
    \/ type = "str"
    \/ type = "int" /\ text.of = "int"
    \/ type = "float" /\ text.of \in {"int", "float"}
Convert(type, text) == [kind |-> type, v |-> text.v]

\* parser.parse_args(): an undeclared flag or a text its type rejects is an
\* error (exit status 2); a declared argument that is not given keeps its
\* default; of two occurrences the later wins.
ParseArgs(parser, argv) ==
    LET declared(i) == \E j \in 1..Len(parser) : parser[j].flag = argv[i].flag
        arg(i) == parser[CHOOSE j \in 1..Len(parser) : parser[j].flag = argv[i].flag]
        given(j) == {i \in 1..Len(argv) : argv[i].flag = parser[j].flag}
        last(S) == CHOOSE i \in S : \A k \in S : k <= i
        ok == \A i \in 1..Len(argv) : declared(i) /\ Converts(arg(i).type, argv[i].text)
    IN  IF ~ok
        THEN [ok |-> FALSE, ns |-> <<>>]
        ELSE [ok |-> TRUE,
              ns |-> [d \in {parser[j].dest : j \in 1..Len(parser)} |->
                        LET j == CHOOSE k \in 1..Len(parser) : parser[k].dest = d
                        IN  IF given(j) = {}
                            THEN parser[j].default
                            ELSE Convert(parser[j].type, argv[last(given(j))].text)]]

\* from azure.ai.ml import MLClient ...; ml_client = MLClient(...)
nb_handle ==
    /\ nb = "notebook" /\ pc = "nb_handle"
    /\ aml' = [aml EXCEPT !.names = @ \cup {"MLClient", "DefaultAzureCredential",
                                            "credential", "subscription_id",
                                            "resource_group", "workspace_name",
                                            "ml_client"}]
    /\ pc' = "nb_verify"
    /\ UNCHANGED <<pipelineVars, exc>>

\* ws = ml_client.workspaces.get(WS_NAME); print(ws.location, ...)
nb_verify ==
    /\ nb = "notebook" /\ pc = "nb_verify"
    /\ IF ~Bound({"ml_client", "WS_NAME"})
       THEN Raise("NameError") /\ UNCHANGED aml
       ELSE /\ aml' = [aml EXCEPT !.names = @ \cup {"ws"}]
            /\ pc' = "nb_dependencies_dir"
            /\ UNCHANGED exc
    /\ UNCHANGED pipelineVars

\* import os; dependencies_dir = "./dependencies"; os.makedirs(...)
nb_dependencies_dir ==
    /\ nb = "notebook" /\ pc = "nb_dependencies_dir"
    /\ aml' = [aml EXCEPT !.names = @ \cup {"os", "dependencies_dir"}]
    /\ pc' = "nb_conda"
    /\ UNCHANGED <<pipelineVars, exc>>

\* %%writefile {dependencies_dir}/conda.yaml
nb_conda ==
    /\ nb = "notebook" /\ pc = "nb_conda"
    /\ IF ~Bound({"dependencies_dir"})
       THEN Raise("NameError") /\ UNCHANGED aml
       ELSE /\ aml' = [aml EXCEPT !.files = @ \cup {PathJoin(dependencies_dir, "conda.yaml")}]
            /\ pc' = "nb_environment"
            /\ UNCHANGED exc
    /\ UNCHANGED pipelineVars

\* custom_env_name = "aml-pytorch"; custom_job_env = Environment(name=...,
\* conda_file=os.path.join(dependencies_dir, "conda.yaml"), ...);
\* ml_client.environments.create_or_update(custom_job_env)
nb_environment ==
    /\ nb = "notebook" /\ pc = "nb_environment"
    /\ LET conda_file == PathJoin(dependencies_dir, "conda.yaml")
       IN  IF ~Bound({"os", "dependencies_dir", "ml_client"})
           THEN Raise("NameError") /\ UNCHANGED aml
           ELSE IF conda_file \notin aml.files
           THEN Raise("FileNotFoundError") /\ UNCHANGED aml
           ELSE /\ aml' = [aml EXCEPT
                    !.names = @ \cup {"Environment", "custom_env_name", "custom_job_env"},
                    !.environments = @ \cup {[name |-> custom_env_name,
                                              conda_file |-> conda_file]}]
                /\ pc' = "nb_src_dir"
                /\ UNCHANGED exc
    /\ UNCHANGED pipelineVars

\* import os; train_src_dir = "./src"; os.makedirs(train_src_dir, exist_ok=True)
nb_src_dir ==
    /\ nb = "notebook" /\ pc = "nb_src_dir"
    /\ aml' = [aml EXCEPT !.names = @ \cup {"os", "train_src_dir"}]
    /\ pc' = "nb_main"
    /\ UNCHANGED <<pipelineVars, exc>>

\* %%writefile {train_src_dir}/main.py
nb_main ==
    /\ nb = "notebook" /\ pc = "nb_main"
    /\ IF ~Bound({"train_src_dir"})
       THEN Raise("NameError") /\ UNCHANGED aml
       ELSE /\ aml' = [aml EXCEPT !.files = @ \cup {PathJoin(train_src_dir, "main.py")}]
            /\ pc' = "nb_command"
            /\ UNCHANGED exc
    /\ UNCHANGED pipelineVars

\* registered_model_name = ...; data_asset = ml_client.data.get(
\* "wine_quality_kaggle", version="1"); job = command(inputs=dict(...),
\* code="./src/", command="python main.py ...", environment="aml-pytorch@latest")
nb_command ==
    /\ nb = "notebook" /\ pc = "nb_command"
    /\ IF ~Bound({"ml_client"})
       THEN Raise("NameError") /\ UNCHANGED aml
       ELSE IF ~setup.data_asset
       THEN Raise("ResourceNotFoundError") /\ UNCHANGED aml
       ELSE /\ aml' = [aml EXCEPT
                !.names = @ \cup {"command", "Input", "AssetTypes", "InputOutputModes",
                                  "registered_model_name", "data_asset", "job"},
                !.job = [configured |-> TRUE, inputs |-> JobInputs, code |-> JobCode,
                         command |-> JobCommand, environment |-> JobEnvironment]]
            /\ pc' = "nb_submit"
            /\ UNCHANGED exc
    /\ UNCHANGED pipelineVars

\* The files of a directory that a job's code= uploads.
Uploaded(code) == {f \in aml.files : f[1] = NormDir(code)}

\* ml_client.create_or_update(job): the service resolves the environment
\* and the placeholders, uploads the code directory and runs the command
\* line there, where main.py parses it.
nb_submit ==
    /\ nb = "notebook" /\ pc = "nb_submit"
    /\ IF ~Bound({"ml_client", "job"})
       THEN Raise("NameError") /\ UNCHANGED aml
       ELSE LET line == ResolveCommand(aml.job.command, aml.job.inputs)
            IN  IF \/ ~line.ok
                   \/ ~\E e \in aml.environments : e.name = aml.job.environment.name
                THEN Raise("ValidationException") /\ UNCHANGED aml
                ELSE /\ aml' = [aml EXCEPT !.submitted =
                          Append(@, [environment |-> aml.job.environment.name,
                                     code |-> Uploaded(aml.job.code),
                                     argv |-> line.argv,
                                     args |-> ParseArgs(ParserArguments, line.argv)])]
                     /\ pc' = "nb_done"
                     /\ UNCHANGED exc
    /\ UNCHANGED pipelineVars

NotebookNext ==
    \/ nb_handle \/ nb_verify \/ nb_dependencies_dir \/ nb_conda \/ nb_environment
    \/ nb_src_dir \/ nb_main \/ nb_command \/ nb_submit

\* A second run of the preprocessing on the same table with the same
\* arguments, after the run is over: the job submitted again (its two
\* splits), or the demo's preprocessing cell executed again (its one split).
preprocess_again ==
    /\ pc \in {"done", "failed"}
    /\ ~rerun.done
    /\ X_train # <<>>
    /\ rerun' =
         IF nb = "job"
         THEN LET r == MainSplit(wine_data, args.test_train_ratio, 1)
              IN  [done |-> TRUE, train |-> r.second.train, val |-> r.second.test,
                   test |-> r.first.test]
         ELSE LET r == DemoSplit(wine_data, 1)
              IN  [done |-> TRUE, train |-> r.train, val |-> <<>>, test |-> r.test]
    /\ UNCHANGED <<inputVars, device_bound, pc, exc, epoch, dataVars, loaderVars,
                   modelVars, loopVars, evalVars, outVars, ghostVars, aml>>

Next == MainNext \/ DemoNext \/ NotebookNext \/ preprocess_again


Spec == Init /\ [][Next]_vars

\* The job's preprocessing alone, up to the two splits, on tables of the size
\* of the wine data set as well as on small ones.
SizesRows == (1..MaxRows) \cup (1590..1599)
SizesInit ==
    /\ nb = "job"
    /\ file \in [delim : {","}, nrows : SizesRows, ncols : {k + 1 : k \in FeatureCounts},
                  quality : {TRUE}, flat : {FALSE}]
    /\ nan_at = 0
    /\ rng \in [1..2 -> 0..MaxShift]
    /\ args \in [test_train_ratio : Ratios, batch_size : {MaxBatch}, epochs : {0}]
    /\ device_bound = FALSE
    /\ setup = NoSetup
    /\ Blank
SizesNext == main_start \/ main_load \/ main_separate \/ main_split
SizesSpec == SizesInit /\ [][SizesNext]_vars

\* ---------------------------------------------------------------- claims

\* The partitions the later steps use.
TrainingRows == IF nb = "job" THEN Range(X_train_final) ELSE Range(X_train)
UsedTrainRows ==
    IF nb = "job" THEN Range(train_loader.rows) ELSE Range(TrainEpochLoader.rows)
UsedValRows ==
    IF nb = "job" THEN Range(val_loader.rows) ELSE Range(ValidateLoader.rows)
UsedTestRows == IF nb = "job" THEN Range(test_loader.rows) ELSE Range(X_test)
LoadersBuilt == train_loader # NoLoader
TrainingPcs == {"train_batch", "train_epoch"}
ConfiguredEpochs == IF nb = "job" THEN args.epochs ELSE num_epochs

\* C1: the standardizer is fitted exactly once, on the training partition and
\* before any transform; every later call is a transform; no row of the
\* validation or test partition is among the rows the statistics come from;
\* once fitted, no step changes the standardizer.
C1_State ==
    /\ scaler.n_fits <= 1
    /\ (scaler.n_fits = 1) = (scaler_log # <<>>)
    /\ scaler_log # <<>> =>
         /\ scaler_log[1] = <<"fit", "train">>
         /\ \A i \in 2..Len(scaler_log) : scaler_log[i][1] = "transform"
         /\ \E i \in 2..Len(scaler_log) : scaler_log[i] = <<"transform", "test">>
         /\ scaler.fit_rows = TrainingRows
         /\ scaler.fit_rows \cap Range(X_test) = {}
         /\ scaler.fit_rows \cap Range(X_val) = {}
C1_FitOnce ==
    /\ []C1_State
    /\ [][scaler.n_fits >= 1 => scaler' = scaler]_vars
C1_Witness ==
    /\ nb = "job" /\ pc = "done" /\ scaler.n_fits = 1
    /\ X_val # <<>> /\ X_test # <<>> /\ trained_on # {}

\* C2 (as claimed): the partitions used for training, for validation and for
\* the test evaluation are pairwise disjoint and their sizes sum to the row
\* count of the table; no row is both validated on and tested on.
C2_Partition ==
    /\ LoadersBuilt =>
         /\ UsedTrainRows \cap UsedValRows = {}
         /\ UsedTrainRows \cap UsedTestRows = {}
         /\ UsedValRows \cap UsedTestRows = {}
         /\ Cardinality(UsedTrainRows) + Cardinality(UsedValRows)
              + Cardinality(UsedTestRows) = wine_data.nrows
    /\ trained_on \cap validated_on = {}
    /\ trained_on \cap tested_on = {}
    /\ validated_on \cap tested_on = {}

\* C3: the parameters change only in an optimizer step of the training
\* phase; from the end of an epoch's training phase on (validation, test
\* evaluation, plots, logging, persistence) they are the parameters the
\* training phase ended with.
C3_State ==
    (model.exists /\ pc \notin TrainingPcs) => model.params = params_at_train_end
C3_Step ==
    model'.params # model.params =>
        /\ pc \in TrainingPcs
        /\ last_forward'.purpose = "update"
        /\ optimizer_steps' = optimizer_steps + 1
        /\ model'.params = model.params + 1
C3_ParamsFrame == []C3_State /\ [][C3_Step]_vars
C3_Witness ==
    /\ nb = "job" /\ pc = "done" /\ epoch = 2 /\ model.params >= 2
    /\ validated_on # {} /\ metrics.computed /\ artifacts # <<>>

\* C4: a forward pass that feeds a parameter update runs with dropout
\* active, a forward pass of validation or of the test evaluation with
\* dropout inactive, in every epoch.
C4_Modes ==
    /\ last_forward.purpose = "update" => last_forward.dropout
    /\ last_forward.purpose \in {"val", "test"} => ~last_forward.dropout
C4_Witness ==
    /\ epoch >= 1 /\ val_losses # <<>> /\ validated_on # {}
    /\ pc \in TrainingPcs
    /\ last_forward.purpose = "update" /\ last_forward.dropout

\* What entry i of a history must be: the average of epoch i - 1 (0-based)
\* of the given phase, over all batches of its loader, every term a loss of
\* a forward pass in that phase's mode.
IsEpochAverage(h, i, phase, loader) ==
    /\ h[i].epoch = i - 1
    /\ h[i].phase = phase
    /\ h[i].nbatches = Len(h[i].terms)
    /\ h[i].nbatches = LoaderLen(Len(loader.rows), loader.batch_size)
    /\ \A j \in 1..Len(h[i].terms) : h[i].terms[j].dropout = (phase = "train")

\* C5: at the boundary after k epochs both histories hold exactly k entries,
\* entry i the average training / validation loss of epoch i; after the loop
\* they hold one entry per configured epoch.
C5_Histories ==
    /\ pc \in {"epoch", "cell_train"} =>
         /\ Len(train_losses) = epoch
         /\ Len(val_losses) = epoch
    /\ (model.exists /\ pc \notin {"epoch", "cell_train", "cell_setup"} \cup TrainingPcs
                             \cup {"val_batch", "validate"}) =>
         /\ Len(train_losses) = ConfiguredEpochs
         /\ Len(val_losses) = ConfiguredEpochs
    /\ \A i \in 1..Len(train_losses) :
         IsEpochAverage(train_losses, i, "train",
                        IF nb = "job" THEN train_loader ELSE TrainEpochLoader)
    /\ \A i \in 1..Len(val_losses) :
         IsEpochAverage(val_losses, i, "val",
                        IF nb = "job" THEN val_loader ELSE ValidateLoader)
C5_Witness ==
    /\ nb = "job" /\ pc = "epoch" /\ epoch = 2
    /\ Len(train_losses) = 2 /\ Len(val_losses) = 2
    /\ train_losses[2].nbatches = 2

\* C6: the metrics are computed over exactly the rows of the test partition,
\* each prediction against the target of its own row, and no test row is in
\* a batch a parameter update was performed on.
C6_HeldOut ==
    /\ metrics.computed =>
         /\ metrics.targets = X_test
         /\ Len(metrics.predictions) = Len(X_test)
         /\ \A i \in 1..Len(X_test) :
              /\ metrics.predictions[i].row = X_test[i]
              /\ metrics.predictions[i].params = model.params
              /\ ~metrics.predictions[i].dropout
    /\ trained_on \cap Range(X_test) = {}
C6_Witness ==
    /\ nb = "job" /\ metrics.computed /\ trained_on # {}
    /\ args.batch_size = 2 /\ Len(X_test) = 2 /\ Len(X_train_final) = 3

\* The load cell has run on a file the save cell wrote.
LoadCellRan == nb = "demo" /\ artifacts # <<>> /\ pc # "cell_load_model"
SavedCheckpoint == artifacts[Len(artifacts)]
SavedModel ==
    [WineQualityNet(SavedCheckpoint.state_dict.fc1_in)
       EXCEPT !.params = SavedCheckpoint.state_dict.params,
              !.nan = SavedCheckpoint.state_dict.nan, !.training = FALSE]

\* C7 (as claimed): after the save cell and the load cell, the loaded model
\* predicts, for every input, what the saved model predicts.
C7_RoundTrip ==
    LoadCellRan =>
        /\ pc = "done"
        /\ \A r \in 1..MaxRows :
             Predictions(model, <<r>>) = Predictions(SavedModel, <<r>>)

RequiredContents ==
    {"model_state_dict", "optimizer_state_dict", "scaler", "train_losses",
     "val_losses"}
TrainingRunSucceeded ==
    \/ nb = "job" /\ pc = "done"
    \/ nb = "demo" /\ pc \in {"cell_load_model", "done"}

\* C8 (as claimed): at the end of a successful training run exactly one
\* artifact has been written, and it holds the model parameters, the
\* optimizer state, the fitted standardizer and both loss histories.
C8_SingleArtifact ==
    TrainingRunSucceeded =>
        /\ Len(artifacts) = 1
        /\ RequiredContents \subseteq artifacts[1].contents
        /\ artifacts[1].state_dict.params = model.params
        /\ artifacts[1].scaler = scaler
        /\ artifacts[1].train_losses = train_losses
        /\ artifacts[1].val_losses = val_losses

\* C9 (as claimed): the load step, run on a saved file, ends with a model
\* built with the stored input dimension (the number of feature columns
\* trained on), holding the stored parameters, in evaluation mode; it fails,
\* leaving no loaded model, only when the stored dimension does not fit the
\* stored parameters.
C9_Load ==
    LoadCellRan =>
        IF StateDictFits(WineQualityNet(SavedCheckpoint.input_dim),
                         SavedCheckpoint.state_dict)
        THEN /\ pc = "done"
             /\ model.input_dim = SavedCheckpoint.input_dim
             /\ model.input_dim = wine_data.ncols - 1
             /\ model.params = SavedCheckpoint.state_dict.params
             /\ ~model.training
        ELSE pc = "failed" /\ exc = "RuntimeError"

\* C10: when the table the job loaded has no 'quality' column, the run ends
\* at the separation with KeyError: no split, no fit, no model, no training
\* step, no further logging, no registration; no step follows that failure.
C10_State ==
    (nb = "job" /\ wine_data.loaded /\ ~wine_data.quality /\ pc # "separate") =>
        /\ pc = "failed" /\ exc = "KeyError"
        /\ X_train = <<>> /\ X_test = <<>> /\ X_train_final = <<>> /\ X_val = <<>>
        /\ scaler.n_fits = 0 /\ scaler_log = <<>>
        /\ ~model.exists /\ optimizer_steps = 0 /\ trained_on = {}
        /\ ~metrics.computed
        /\ logged = {"num_samples", "num_features"}
        /\ artifacts = <<>>
        /\ run = "active"
C10_MissingQuality ==
    /\ []C10_State
    /\ [][~(nb = "job" /\ pc = "failed" /\ exc = "KeyError")]_vars
C10_Witness ==
    /\ nb = "job" /\ pc = "failed" /\ exc = "KeyError"
    /\ file.delim = "," /\ ~file.quality /\ logged # {}

\* A NaN batch loss has entered a recorded epoch average.
NanRecorded ==
    \/ \E i \in 1..Len(train_losses) : train_losses[i].nan
    \/ \E i \in 1..Len(val_losses) : val_losses[i].nan

\* C11 (as claimed): once a batch loss of the job is NaN, the job still runs
\* every configured epoch, records NaN as the average of that epoch and goes
\* on through the test evaluation, the metrics, the logging and the
\* registration: the NaN does not end the run.
C11_NanPropagates ==
    (nb = "job" /\ NanRecorded) =>
        /\ \A i \in 1..Len(val_losses) :
             (\E j \in 1..Len(val_losses[i].terms) : val_losses[i].terms[j].nan)
                 => val_losses[i].nan
        /\ pc \notin {"epoch", "train_batch", "val_batch", "failed"}
             => Len(train_losses) = args.epochs
        /\ ~(pc = "failed" /\ exc = "ValueError")

\* C12 (as claimed): whether the input file is semicolon-delimited or
\* comma-delimited, the loaded table has the file's columns, 'quality' among
\* them, and the separation that follows succeeds.
C12_BothDelimiters ==
    (wine_data.loaded /\ file.quality) =>
        /\ wine_data.ncols = file.ncols
        /\ HasColumnQuality(wine_data)
        /\ exc # "KeyError"

\* k = ceil(ratio * n), stated without the division: the least k with
\* k * den >= num * n.
IsCeilOf(k, ratio, n) ==
    /\ k * ratio[2] >= ratio[1] * n
    /\ (k - 1) * ratio[2] < ratio[1] * n

\* C13: after the job's two splits the test partition has ceil(ratio * n)
\* rows and the rest is split again, the validation partition taking
\* ceil(0.2 * rest) rows and the training partition what remains; a table of
\* 1599 rows with ratio 0.2 gives train = 1023, val = 256, test = 320.
C13_Sizes ==
    (nb = "job" /\ pc = "scale") =>
        /\ IsCeilOf(Len(X_test), args.test_train_ratio, wine_data.nrows)
        /\ Len(X_train) = wine_data.nrows - Len(X_test)
        /\ IsCeilOf(Len(X_val), FixedRatio, Len(X_train))
        /\ Len(X_train_final) = Len(X_train) - Len(X_val)
        /\ (wine_data.nrows = 1599 /\ args.test_train_ratio = <<1, 5>>) =>
             /\ Len(X_train_final) = 1023
             /\ Len(X_val) = 256
             /\ Len(X_test) = 320
C13_Witness ==
    /\ nb = "job" /\ pc = "scale"
    /\ wine_data.nrows = 1599 /\ args.test_train_ratio = <<1, 5>>
    /\ Len(X_train_final) = 1023 /\ Len(X_val) = 256 /\ Len(X_test) = 320

C15_OutputShape ==
    last_forward.purpose # "none" =>
        /\ Cardinality(last_forward.rows) >= 1
        /\ last_forward.shape = <<Cardinality(last_forward.rows), 1>>
C15_Witness ==
    /\ last_forward.purpose = "update"
    /\ Cardinality(last_forward.rows) = 1
    /\ model.fc1_in = 11
    /\ last_forward.shape = <<1, 1>>

\* The kinds of the operations of a forward pass, in order, and the widths
\* its linear layers produce, in order.
OpKinds(ops) == [i \in 1..Len(ops) |-> ops[i][1]]
LinearWidths(ops) ==
    LET RECURSIVE W(_)
        W(o) == IF o = <<>> THEN <<>>
                ELSE IF Head(o)[1] = "linear" THEN <<Head(o)[3]>> \o W(Tail(o))
                ELSE W(Tail(o))
    IN  W(ops)

\* C16: forward applies linear to 64, ReLU, dropout, linear to 32, ReLU,
\* dropout, linear to 16, ReLU, linear to 1, in this order, with nothing
\* after the last linear layer, in the demo's model and in the job's.
C16_LayerOrder ==
    last_forward.purpose # "none" =>
        /\ OpKinds(last_forward.ops) =
             <<"linear", "relu", "dropout", "linear", "relu", "dropout",
               "linear", "relu", "linear">>
        /\ LinearWidths(last_forward.ops) = <<64, 32, 16, 1>>
        /\ last_forward.ops[1][2] = wine_data.ncols - 1
C16_Witness ==
    /\ nb = "demo" /\ last_forward.purpose = "test"
    /\ validated_on # {} /\ trained_on # {}
    /\ Len(last_forward.ops) = 9

\* The targets of the evaluated partition all have the same value.
TestTargetsConstant ==
    \A i, j \in 1..Len(metrics.targets) :
        Quality(file.flat, metrics.targets[i]) = Quality(file.flat, metrics.targets[j])

\* C17 (as claimed): the evaluation's R2 is 1.0 when every prediction equals
\* its target, and when the targets of the test partition have zero variance
\* it is reported as undefined, or flagged, not as an ordinary number.
C17_R2 ==
    metrics.computed =>
        /\ (metrics.exact /\ ~TestTargetsConstant) => metrics.r2.value = "1.0"
        /\ TestTargetsConstant =>
             (metrics.r2.value = "nan" \/ metrics.r2.flagged)

\* C18 (as claimed): after the fit, every feature column of the standardized
\* training data has mean 0 and standard deviation 1, a column that is
\* constant over the training partition included.
C18_Standardized ==
    scaler.n_fits = 1 =>
        /\ Len(X_train_scaled) = wine_data.ncols - 1
        /\ \A j \in 1..Len(X_train_scaled) :
             /\ X_train_scaled[j].mean = 0
             /\ X_train_scaled[j].std = 1

\* What the demo notebook does with the table the job loaded.
DemoPartitions == DemoSplit(wine_data, 0)

\* C19 (as claimed): on the same table and with the same split ratio the job
\* script does what the demo notebook does: it trains on the partition the
\* demo trains on, fits the standardizer on the same rows, validates on the
\* partition the demo validates on, evaluates on the same test partition,
\* and persists what the demo's save cell persists.
C19_SamePipeline ==
    (nb = "job" /\ args.test_train_ratio = FixedRatio /\ LoadersBuilt) =>
        /\ Range(test_loader.rows) = Range(DemoPartitions.test)
        /\ Range(train_loader.rows) = Range(DemoTrainLoader(DemoPartitions.train).rows)
        /\ scaler.fit_rows = Range(DemoPartitions.train)
        /\ Range(val_loader.rows) = Range(DemoTestLoader(DemoPartitions.test).rows)
        /\ \A i \in 1..Len(artifacts) :
             artifacts[i].contents = SaveCheckpoint.contents

\* The training loop's positions, and how far the loop still has to go: the
\* epochs left, the phase of the epoch (head, training, validation) and the
\* rows left in the pass.
LoopPcs == {"epoch", "train_batch", "val_batch", "cell_train", "train_epoch", "validate"}
PhaseRank ==
    IF pc \in {"epoch", "cell_train"} THEN 2
    ELSE IF pc \in TrainingPcs THEN 1 ELSE 0
RowsLeft == IF pos > Len(todo) THEN 0 ELSE Len(todo) + 1 - pos
BatchSize == IF nb = "job" THEN args.batch_size ELSE demo_batch_size

\* The batches of one recorded training epoch hold every training row
\* exactly once, and there are ceil(n_train / batch_size) of them.
FullPass(avg) ==
    /\ \A r \in TrainingRows :
         Cardinality({j \in 1..Len(avg.terms) : r \in avg.terms[j].rows}) = 1
    /\ \A j \in 1..Len(avg.terms) : avg.terms[j].rows \subseteq TrainingRows
    /\ IsCeilOf(Len(avg.terms), <<1, BatchSize>>, Cardinality(TrainingRows))

UpdatesPerEpoch ==
    CHOOSE k \in 0..Cardinality(TrainingRows) :
        IsCeilOf(k, <<1, BatchSize>>, Cardinality(TrainingRows))

C20_State ==
    /\ epoch <= ConfiguredEpochs
    /\ \A i \in 1..Len(train_losses) : FullPass(train_losses[i])
    /\ pc \in {"epoch", "cell_train"} =>
         optimizer_steps = epoch * UpdatesPerEpoch
    /\ (model.exists /\ pc \notin LoopPcs \cup {"init_model", "cell_setup"}) =>
         /\ epoch = ConfiguredEpochs
         /\ Len(train_losses) = ConfiguredEpochs
         /\ optimizer_steps = ConfiguredEpochs * UpdatesPerEpoch
C20_Progress ==
    pc \in LoopPcs =>
        \/ pc' \notin LoopPcs /\ epoch = ConfiguredEpochs
        \/ /\ pc' \in LoopPcs
           /\ \/ ConfiguredEpochs - epoch' < ConfiguredEpochs - epoch
              \/ epoch' = epoch /\ PhaseRank' < PhaseRank
              \/ epoch' = epoch /\ PhaseRank' = PhaseRank /\ RowsLeft' < RowsLeft

\* C20: the training loop ends after exactly the configured number of epochs
\* (0 included): every step of the loop brings it nearer to its end, and it
\* is left only when the epochs are used up.  Every epoch is one full pass:
\* each training row is in exactly one batch, so an epoch makes
\* ceil(n_train / batch_size) updates and the run epochs times as many.
C20_Epochs == []C20_State /\ [][C20_Progress]_vars
C20_Witness ==
    /\ nb = "job" /\ pc = "done" /\ args.epochs = 2 /\ args.batch_size = 2
    /\ Len(X_train_final) = 3 /\ optimizer_steps = 4

\* The argument of main.py's parser that a flag of the command line sets.
DestOf(flag) ==
    LET j == CHOOSE k \in 1..Len(ParserArguments) : ParserArguments[k].flag = flag
    IN  ParserArguments[j].dest

\* C21: in the command job the notebook configures, every ${{inputs.X}}
\* placeholder of the command string names a key of the inputs dictionary,
\* every key of the inputs dictionary is passed on the command line, and
\* every --flag of the command string is an argument main.py's parser
\* declares; once the job is submitted, main.py's parsed value of the
\* argument each flag sets is the value the notebook gave for the input
\* that follows the flag.
C21_InputsReachMain ==
    (nb = "notebook" /\ aml.job.configured) =>
        LET cmd == aml.job.command
            inputs == aml.job.inputs
        IN  /\ \A i \in 1..Len(cmd) : cmd[i].input \in DOMAIN inputs
            /\ \A k \in DOMAIN inputs : \E i \in 1..Len(cmd) : cmd[i].input = k
            /\ \A i \in 1..Len(cmd) :
                 \E j \in 1..Len(ParserArguments) : ParserArguments[j].flag = cmd[i].flag
            /\ \A n \in 1..Len(aml.submitted) :
                 /\ aml.submitted[n].args.ok
                 /\ \A i \in 1..Len(cmd) :
                      aml.submitted[n].args.ns[DestOf(cmd[i].flag)].v = inputs[cmd[i].input].v

\* The job was submitted and main.py parsed the notebook's six inputs.
C21_Witness ==
    /\ nb = "notebook"
    /\ Len(aml.submitted) = 1
    /\ aml.submitted[1].args.ok
    /\ Len(aml.submitted[1].argv) = 6
    /\ aml.submitted[1].args.ns["batch_size"].v = 32
    /\ aml.submitted[1].args.ns["registered_model_name"].v = "wine_quality_model"

\* The environment a job refers to is registered in the workspace, from a
\* conda file that was written; main.py is in the directory it uploads.
JobIsBacked(j) ==
    /\ j.environment.name = "aml-pytorch"
    /\ \E e \in aml.environments : e.name = j.environment.name /\ e.conda_file \in aml.files
    /\ PathJoin(NormDir(j.code), "main.py") \in aml.files

C22_State ==
    nb = "notebook" =>
        /\ aml.job.configured => JobIsBacked(aml.job)
        /\ \A n \in 1..Len(aml.submitted) :
             /\ aml.submitted[n].environment = "aml-pytorch"
             /\ \E f \in aml.submitted[n].code : f[2] = "main.py"

\* C22: when the job notebook's cells run in order, the job is submitted
\* only after the conda file was written and the environment registered from
\* it under the name the job refers to ('aml-pytorch'), and after main.py
\* was written into the directory the job uploads; the job never refers to
\* an environment name or a code directory that no earlier cell created.
C22_SubmittedAfterSetup ==
    /\ []C22_State
    /\ [][aml'.submitted # aml.submitted =>
            /\ aml.job.configured /\ JobIsBacked(aml.job)
            /\ aml'.submitted = Append(aml.submitted, aml'.submitted[Len(aml'.submitted)])
            /\ aml'.files = aml.files /\ aml'.environments = aml.environments]_vars

\* The job was submitted, with the environment and main.py in place.
C22_Witness ==
    /\ nb = "notebook"
    /\ pc = "nb_done"
    /\ Len(aml.submitted) = 1
    /\ aml.submitted[1].environment = "aml-pytorch"
    /\ PathJoin("./src", "main.py") \in aml.submitted[1].code
    /\ PathJoin("./dependencies", "conda.yaml") \in aml.files

\* Arithmetic on a recorded per-epoch loss, for given squared errors e[r] of
\* the rows r: a term of the sum is the mean of e over the rows of its
\* batch, the recorded value is the sum of the terms over nbatches.  With P
\* the product of the batch lengths, the recorded value is
\* ScaledSum / (P * nbatches), and the mean squared error over all the rows is
\* ErrorSum / (number of rows).
RECURSIVE ErrorSum(_, _)
ErrorSum(rows, e) ==
    IF rows = {} THEN 0
    ELSE LET r == CHOOSE x \in rows : TRUE IN e[r] + ErrorSum(rows \ {r}, e)
RECURSIVE LengthProduct(_)
LengthProduct(terms) ==
    IF terms = <<>> THEN 1
    ELSE Cardinality(Head(terms).rows) * LengthProduct(Tail(terms))
RECURSIVE ScaledSum(_, _, _)
ScaledSum(terms, e, P) ==
    IF terms = <<>> THEN 0
    ELSE ErrorSum(Head(terms).rows, e) * (P \div Cardinality(Head(terms).rows))
         + ScaledSum(Tail(terms), e, P)
AllRowsOf(terms) == UNION {terms[j].rows : j \in 1..Len(terms)}
ErrorValues == {0, 1}
RecordedIsMSE(h) ==
    LET rows == AllRowsOf(h.terms)
        P == LengthProduct(h.terms)
    IN  \A e \in [rows -> ErrorValues] :
            ScaledSum(h.terms, e, P) * Cardinality(rows) = ErrorSum(rows, e) * P * h.nbatches

\* C23: for every partition size and batch size, each recorded per-epoch
\* loss (the sum of the per-batch mean losses over the number of batches)
\* equals the mean squared error over all rows of the partition (the sum of
\* the rows' squared errors over the number of rows), also when the last
\* batch is smaller than the others.
C23_EpochLossIsMSE ==
    /\ \A i \in 1..Len(train_losses) :
         train_losses[i].terms # <<>> => RecordedIsMSE(train_losses[i])
    /\ \A i \in 1..Len(val_losses) :
         val_losses[i].terms # <<>> => RecordedIsMSE(val_losses[i])

\* The gradient buffers hold the contribution of at most one backward pass.
C24_State == Len(model.grad) <= 1
\* An optimizer step uses the gradient of exactly one backward pass, the one
\* of the batch whose forward pass the step follows.
C24_Step ==
    model'.params # model.params =>
        /\ last_forward'.purpose = "update"
        /\ model'.grad = <<last_forward'.rows>>
        /\ last_forward'.rows # {}

\* C24: every parameter update uses the gradients of the current batch
\* only: between two consecutive backward passes the gradients are zeroed,
\* and between a zeroing and the following optimizer step there is exactly
\* one backward pass; this holds in the demo, which zeroes after the forward
\* pass, and in the job, which zeroes before it.
C24_CurrentBatchOnly == []C24_State /\ [][C24_Step]_vars

\* The demo after a second update on a second batch.
C24_Witness ==
    /\ nb = "demo" /\ pc = "train_epoch"
    /\ model.params >= 2
    /\ Cardinality(trained_on) >= 2
    /\ last_forward.purpose = "update"
    /\ model.grad = <<last_forward.rows>>

\* C25: for every test partition size n >= 1 and batch size b >= 1 the job's
\* test evaluation completes (the collecting loop raises nothing) and
\* collects exactly n predictions and n targets, prediction i belonging to
\* test row i, also when the last batch holds a single row (n mod b = 1).
C25_TestEvalCompletes ==
    nb = "job" =>
        /\ ~(pc = "failed" /\ exc = "TypeError" /\ last_forward.purpose = "test")
        /\ (pc = "test_batch" /\ pos > Len(todo)) =>
             /\ Len(test_predictions) = Len(X_test)
             /\ test_targets = X_test
             /\ \A i \in 1..Len(X_test) : test_predictions[i].row = X_test[i]

\* The training loop ran all its epochs.
TrainingComplete ==
    /\ epoch = args.epochs
    /\ Len(train_losses) = args.epochs /\ Len(val_losses) = args.epochs
    /\ optimizer_steps = model.params
\* The test metrics and the parameters are in the run's log.
TestResultsLogged ==
    {"test_mse", "test_rmse", "test_r2", "learning_rate", "batch_size", "epochs"}
        \subseteq logged
C26_State ==
    nb = "job" =>
        /\ (pc \in {"test_eval", "test_batch"} \/ tested_on # {}) => TrainingComplete
        /\ metrics.computed => (TrainingComplete /\ tested_on = Range(X_test))
        /\ (logged \cap {"test_mse", "test_rmse", "test_r2"}) # {} => metrics.computed
        /\ artifacts # <<>> => (TrainingComplete /\ metrics.computed /\ TestResultsLogged)
        /\ run = "ended" => (artifacts # <<>> /\ pc = "done")
        /\ pc = "failed" => (artifacts = <<>> /\ run # "ended")
        /\ pc = "done" => run = "ended"
C26_Step ==
    nb = "job" =>
        /\ tested_on' # tested_on => TrainingComplete
        /\ artifacts' # artifacts =>
             /\ run = "active" /\ pc' # "failed"
             /\ TrainingComplete /\ metrics.computed /\ TestResultsLogged
        /\ run' # run => (run' = "ended") = (artifacts # <<>>)

\* C26: the job's steps occur in a fixed order on every successful run: all
\* epochs are over before the test evaluation, the test metrics and the
\* parameters are logged before the model is registered and saved, and the
\* run is ended last; a model is never registered for a run whose training
\* or test evaluation did not complete.
C26_FixedOrder == []C26_State /\ [][C26_Step]_vars

\* A successful run of two epochs, ended after the model was registered.
C26_Witness ==
    /\ nb = "job" /\ pc = "done" /\ run = "ended"
    /\ args.epochs = 2 /\ epoch = 2
    /\ metrics.computed /\ TestResultsLogged
    /\ Len(artifacts) = 2

\* C27: every MLflow run the job starts is ended by the script on every path
\* after start_run, the paths that leave main with an exception included:
\* when the script is over, however it ended, the run it started is ended.
C27_RunEnded ==
    (nb = "job" /\ pc \in {"done", "failed"} /\ run # "none") => run = "ended"

\* C28: when the demo notebook's cells are executed once, top to bottom,
\* every name a cell reads has been assigned and every call passes only
\* parameters the callee accepts, so no cell up to and including the load
\* cell ends with a name error or an argument error; in particular `device`
\* is assigned before the model is created and before train_epoch and
\* validate are called.
C28_DemoRunsThrough ==
    nb = "demo" =>
        /\ ~(pc = "failed" /\ exc = "NameError")
        /\ ~(pc = "failed" /\ exc = "TypeError" /\ artifacts # <<>>)
        /\ model.exists => device_bound

\* C29: when the job notebook's cells are executed once, top to bottom,
\* every name a cell reads has been assigned, so no cell up to the job
\* submission ends with a name error; in particular the cell that verifies
\* the workspace handle reads only names the workspace-handle cell assigned.
C29_NotebookRunsThrough ==
    nb = "notebook" =>
        /\ ~(pc = "failed" /\ exc = "NameError")
        /\ pc = "nb_verify" => Bound({"ml_client", "WS_NAME"})

====
